---- MODULE Spec2Model ----
(***************************************************************************)
(* Micro-batch ingestion pipeline of spark_streaming_to_postgres.py:       *)
(* clean_and_validate_data, deduplicate_events, prepare_for_postgres,      *)
(* write_errors and the retry loop of write_to_postgres_with_retry,        *)
(* together with the user_events table the JDBC append writes to.          *)
(*                                                                         *)
(* A DataFrame is a bag (multiset) of rows; a row is a function from       *)
(* column names to SQL values; a SQL value is {} (NULL) or {v}.  Strings   *)
(* are tuples of one-character strings, so trim, lower, the substring test *)
(* and the timestamp parse are computed on the characters.                 *)
(***************************************************************************)
EXTENDS Bags, FiniteSets, Integers, Sequences, TLC

VARIABLES
    pc,           \* position of write_to_postgres_with_retry
    batch_df,     \* the micro-batch handed over by foreachBatch
    valid_df,     \* clean_and_validate_data(batch_df)[0]
    invalid_df,   \* clean_and_validate_data(batch_df)[1]
    deduped_df,   \* deduplicate_events(valid_df)
    attempt,      \* loop variable of the retry loop
    error_msg,    \* str(e) of the exception being handled
    outcomes,     \* per invocation: outcome of every .save() so far
    slept,        \* per invocation: seconds spent in time.sleep
    sink,         \* rows of the user_events table
    sink_before,  \* rows of user_events when the invocation started
    error_out,    \* what write_errors persisted for this invocation
    \* data_generator.py: the clock and the RateLimiter
    now,                 \* time.time(), in ticks
    events_per_second,   \* RateLimiter.events_per_second
    events_this_second,  \* RateLimiter.events_this_second
    second_start,        \* RateLimiter.second_start
    rl_pc,               \* "ready", or "sleeping" inside wait()
    wake_at,             \* the time the sleep of wait() is due to end
    calls_left,          \* wait() calls the caller still makes
    first_call,          \* time of the first wait() call, -1 before it
    returns,             \* the times at which wait() returned
    \* data_generator.py: run_generator and the input directory
    gen_pc,              \* position of run_generator
    shutdown_requested,  \* the global flag set by signal_handler
    batch_size,
    duration,            \* seconds, NULL for an indefinite run
    start_time,
    events,              \* the batch being filled
    iteration,           \* iterations of the for loop done in this batch
    generated,           \* number of generate_event() calls so far
    total_events,
    total_files,
    files,               \* the input directory: file name -> file
    writing,             \* name of the file write_events_to_csv has open
    last_read,           \* what the pipeline last read from the directory
    at_shutdown,         \* the producer's progress when the flag was set
    file_clock,          \* datetime.now() at the resolution of file names
    \* spark_streaming_to_postgres.py: main and wait_for_postgres
    st_pc,               \* position of main
    max_retries,         \* wait_for_postgres(max_retries=...)
    st_attempt,          \* loop variable of wait_for_postgres
    st_tests,            \* calls of test_postgres_connection so far
    st_connected,        \* result of the last test_postgres_connection
    st_slept,            \* seconds slept by wait_for_postgres
    st_started           \* start_streaming_job has been called

pipelineVars == <<pc, batch_df, valid_df, invalid_df, deduped_df, attempt,
                  error_msg, outcomes, slept, sink, sink_before, error_out>>
limiterState == <<events_per_second, events_this_second, second_start, rl_pc,
                  wake_at>>
limiterLog == <<calls_left, first_call, returns>>
limiterVars == <<now, limiterState, limiterLog>>
producerVars == <<gen_pc, shutdown_requested, batch_size, duration, start_time,
                  events, iteration, generated, total_events, total_files,
                  files, writing, last_read, at_shutdown, file_clock>>
startupVars == <<st_pc, max_retries, st_attempt, st_tests, st_connected,
                 st_slept, st_started>>
vars == <<pipelineVars, limiterVars, producerVars, startupVars>>

(***************************************************************************)
(* Bounds                                                                  *)
(***************************************************************************)
MaxBatch == 2
TicksPerSecond == 2    \* resolution of the clock
MaxSeconds == 3        \* the caller idles at most until this time
MaxRate == 2           \* largest events_per_second of the free-running limiter
MaxCalls == 4          \* wait() calls made on the free-running limiter
MaxEvents == 3         \* events one producer run generates at most
MaxBatchSize == 2      \* largest --batch-size
MaxDuration == 1       \* largest --duration, in seconds
MaxStartupRetries == 3 \* largest max_retries besides the default

(***************************************************************************)
(* Configuration                                                           *)
(***************************************************************************)
MAX_RETRIES == 3
RETRY_DELAY_SECONDS == 5

view == <<"v","i","e","w">>
add_to_cart == <<"a","d","d","_","t","o","_","c","a","r","t">>
purchase == <<"p","u","r","c","h","a","s","e">>
VALID_EVENT_TYPES == {view, add_to_cart, purchase}

(***************************************************************************)
(* SQL values                                                              *)
(***************************************************************************)
NULL == {}
Val(x) == {x}
IsNull(v) == v = {}
Get(v) == CHOOSE x \in v : TRUE

\* Column.isNotNull(): never NULL itself
IsNotNull(v) == Val(~IsNull(v))

\* Column.__and__: SQL three-valued AND
And3(a, b) ==
    IF a = Val(FALSE) \/ b = Val(FALSE) THEN Val(FALSE)
    ELSE IF IsNull(a) \/ IsNull(b) THEN NULL
    ELSE Val(TRUE)

\* Column.isin(list): NULL for a NULL operand
IsIn(v, list) == IF IsNull(v) THEN NULL ELSE Val(Get(v) \in list)

\* Column > literal: NULL for a NULL operand
GreaterThan(v, n) == IF IsNull(v) THEN NULL ELSE Val(Get(v) > n)

\* Column == literal: NULL for a NULL operand
EqualTo(v, b) == IF IsNull(v) THEN NULL ELSE Val(Get(v) = b)

(***************************************************************************)
(* String functions                                                        *)
(***************************************************************************)
RECURSIVE LTrimStr(_)
LTrimStr(s) ==
    IF s # <<>> /\ Head(s) = " " THEN LTrimStr(Tail(s)) ELSE s

RECURSIVE RTrimStr(_)
RTrimStr(s) ==
    IF s # <<>> /\ s[Len(s)] = " " THEN RTrimStr(SubSeq(s, 1, Len(s) - 1)) ELSE s

\* pyspark.sql.functions.trim
Trim(v) == IF IsNull(v) THEN NULL ELSE Val(RTrimStr(LTrimStr(Get(v))))

UpperAlphabet == <<"A","B","C","D","E","F","G","H","I","J","K","L","M",
                   "N","O","P","Q","R","S","T","U","V","W","X","Y","Z">>
LowerAlphabet == <<"a","b","c","d","e","f","g","h","i","j","k","l","m",
                   "n","o","p","q","r","s","t","u","v","w","x","y","z">>
LowerChar(c) ==
    IF \E i \in 1..26 : UpperAlphabet[i] = c
    THEN LowerAlphabet[CHOOSE i \in 1..26 : UpperAlphabet[i] = c]
    ELSE c
LowerStr(s) == [i \in 1..Len(s) |-> LowerChar(s[i])]

\* pyspark.sql.functions.lower
Lower(v) == IF IsNull(v) THEN NULL ELSE Val(LowerStr(Get(v)))

\* Python's  sub in s
Contains(sub, s) ==
    \E i \in 0..(Len(s) - Len(sub)) : SubSeq(s, i + 1, i + Len(sub)) = sub

Digits == {"0","1","2","3","4","5","6","7","8","9"}
DigitVal(c) ==
    CASE c = "0" -> 0 [] c = "1" -> 1 [] c = "2" -> 2 [] c = "3" -> 3
      [] c = "4" -> 4 [] c = "5" -> 5 [] c = "6" -> 6 [] c = "7" -> 7
      [] c = "8" -> 8 [] c = "9" -> 9
Num2(s, i) == 10 * DigitVal(s[i]) + DigitVal(s[i + 1])
Num4(s, i) == 100 * Num2(s, i) + Num2(s, i + 2)

\* the shape 'yyyy-MM-dd HH:mm:ss'
MatchesPattern(s) ==
    /\ Len(s) = 19
    /\ s[5] = "-" /\ s[8] = "-" /\ s[11] = " " /\ s[14] = ":" /\ s[17] = ":"
    /\ \A i \in (1..19) \ {5, 8, 11, 14, 17} : s[i] \in Digits

DaysInMonth(y, m) ==
    IF m \in {4, 6, 9, 11} THEN 30
    ELSE IF m = 2
         THEN (IF (y % 4 = 0 /\ y % 100 # 0) \/ y % 400 = 0 THEN 29 ELSE 28)
         ELSE 31

\* pyspark.sql.functions.to_timestamp(col, 'yyyy-MM-dd HH:mm:ss'):
\* the instant as <<year, month, day, hour, minute, second>>, NULL when the
\* string does not parse
ToTimestamp(v) ==
    IF IsNull(v) THEN NULL
    ELSE LET s == Get(v) IN
         IF ~MatchesPattern(s) THEN NULL
         ELSE LET y == Num4(s, 1)   mo == Num2(s, 6)   d == Num2(s, 9)
                  h == Num2(s, 12)  mi == Num2(s, 15)  se == Num2(s, 18)
              IN IF /\ mo \in 1..12
                    /\ d \in 1..DaysInMonth(y, mo)
                    /\ h \in 0..23 /\ mi \in 0..59 /\ se \in 0..59
                 THEN Val(<<y, mo, d, h, mi, se>>)
                 ELSE NULL

(***************************************************************************)
(* DataFrames                                                              *)
(***************************************************************************)
SourceColumns == {"event_id", "user_id", "product_id", "product_name",
                  "category", "price", "event_type", "timestamp"}
TrimmedColumns == {"event_id", "user_id", "product_id", "product_name",
                   "category", "event_type"}
SinkColumns == {"event_id", "user_id", "product_id", "product_name",
                "category", "price", "event_type", "event_timestamp"}

\* DataFrame.count()
Count(df) == BagCardinality(df)

\* DataFrame.isEmpty()
IsEmpty(df) == df = EmptyBag

\* DataFrame.filter(cond): keeps the rows whose condition is TRUE; a row
\* whose condition is NULL is not kept
Filter(df, cond) ==
    [r \in {x \in DOMAIN df : cond[x] = Val(TRUE)} |-> df[r]]

\* DataFrame.withColumn / select / drop, applied row by row: f maps each row
\* of df to its image
MapRows(df, f) == BagOfAll(LAMBDA r : f[r], df)

WithColumn(row, name, v) ==
    [c \in DOMAIN row \cup {name} |-> IF c = name THEN v ELSE row[c]]

Drop(row, names) == [c \in DOMAIN row \ names |-> row[c]]

Select(row, names) == [c \in names |-> row[c]]

(***************************************************************************)
(* Data transformations                                                    *)
(***************************************************************************)
\* lines 190-202: trim, lower(event_type), event_timestamp
CleanRow(row) ==
    LET trimmed == [c \in DOMAIN row |->
                       IF c \in TrimmedColumns THEN Trim(row[c]) ELSE row[c]]
        lowered == [trimmed EXCEPT !["event_type"] = Lower(trimmed["event_type"])]
    IN WithColumn(lowered, "event_timestamp", ToTimestamp(lowered["timestamp"]))

\* is_valid without the price condition
IsValidAnyPrice(row) ==
    And3(And3(And3(And3(IsNotNull(row["event_id"]),
                        IsNotNull(row["user_id"])),
                   IsNotNull(row["product_id"])),
              IsIn(row["event_type"], VALID_EVENT_TYPES)),
         IsNotNull(row["event_timestamp"]))

\* lines 207-214: the is_valid column expression
IsValid(row) ==
    And3(And3(And3(And3(And3(IsNotNull(row["event_id"]),
                             IsNotNull(row["user_id"])),
                        IsNotNull(row["product_id"])),
                   IsIn(row["event_type"], VALID_EVENT_TYPES)),
              GreaterThan(row["price"], 0)),
         IsNotNull(row["event_timestamp"]))

FlagRow(row) == WithColumn(CleanRow(row), "is_valid", IsValid(CleanRow(row)))

IsValidTrue(row) == EqualTo(row["is_valid"], TRUE)
IsValidFalse(row) == EqualTo(row["is_valid"], FALSE)
DropFlagAndTimestamp(row) == Drop(row, {"is_valid", "timestamp"})
DropFlag(row) == Drop(row, {"is_valid"})

\* returns <<valid_df, invalid_df>>
clean_and_validate_data(df) ==
    LET validated_df == MapRows(df, [r \in DOMAIN df |-> FlagRow(r)])
        kept == Filter(validated_df,
                       [r \in DOMAIN validated_df |-> IsValidTrue(r)])
        rest == Filter(validated_df,
                       [r \in DOMAIN validated_df |-> IsValidFalse(r)])
    IN << MapRows(kept, [r \in DOMAIN kept |-> DropFlagAndTimestamp(r)]),
          MapRows(rest, [r \in DOMAIN rest |-> DropFlag(r)]) >>

EventIds(df) == {r["event_id"] : r \in DOMAIN df}

\* DataFrame.dropDuplicates(['event_id']): one row for each event_id, and
\* which of the rows sharing an event_id is kept is not determined; the set
\* of the results the engine may produce
DropDuplicatesByEventId(df) ==
    LET picks == {f \in [EventIds(df) -> DOMAIN df] :
                     \A k \in EventIds(df) : f[k]["event_id"] = k}
    IN {SetToBag({f[k] : k \in EventIds(df)}) : f \in picks}

\* no deduplication at all
KeepAllRows(df) == {df}

\* every row whose event_id occurs more than once is dropped
KeepOnlyUnsharedIds(df) ==
    {[r \in {x \in DOMAIN df :
                 /\ df[x] = 1
                 /\ \A q \in DOMAIN df : q["event_id"] = x["event_id"] => q = x}
         |-> 1]}

deduplicate_events(df) == DropDuplicatesByEventId(df)

SelectSinkColumns(row) == Select(row, SinkColumns)

prepare_for_postgres(df) ==
    MapRows(df, [r \in DOMAIN df |-> SelectSinkColumns(r)])

(***************************************************************************)
(* Input batches: a well-formed event and every change of one field of it  *)
(***************************************************************************)
Str_e1 == <<"e","1">>
Str_e2 == <<"e","2">>
Str_u1 == <<"u","1">>
Str_p1 == <<"p","1">>
GoodTimestamp == <<"2","0","2","4","-","0","1","-","1","5"," ","1","0",":","3","0",":","0","0">>
BadMonthTimestamp == <<"2","0","2","4","-","1","3","-","0","1"," ","1","0",":","3","0",":","0","0">>
GarbageTimestamp == <<"n","/","a">>

WellFormedEvent ==
    [event_id |-> Val(Str_e1), user_id |-> Val(Str_u1), product_id |-> Val(Str_p1),
     product_name |-> Val(<<"M","u","g">>), category |-> Val(<<"H","o","m","e">>),
     price |-> Val(5), event_type |-> Val(view), timestamp |-> Val(GoodTimestamp)]

FieldValues ==
    [event_id     |-> {NULL, Val(<<" ">> \o Str_e2)},
     user_id      |-> {NULL, Val(<<" ">>)},
     product_id   |-> {NULL},
     product_name |-> {},
     category     |-> {},
     price        |-> {NULL, Val(0), Val(7)},
     event_type   |-> {NULL, Val(<<"V","I","E","W"," ">>), Val(<<"c","l","i","c","k">>),
                       Val(<<"v","i","e","w","\t">>)},
     timestamp    |-> {NULL, Val(BadMonthTimestamp), Val(GarbageTimestamp)}]

RawRecords ==
    {WellFormedEvent} \cup
    UNION {{[WellFormedEvent EXCEPT ![c] = v] : v \in FieldValues[c]} : c \in SourceColumns}

AddRow(df, row) == df (+) SetToBag({row})

RECURSIVE BatchesOfSize(_)
BatchesOfSize(n) ==
    IF n = 0 THEN {EmptyBag}
    ELSE {AddRow(df, row) : df \in BatchesOfSize(n - 1), row \in RawRecords}

RawBatches == UNION {BatchesOfSize(n) : n \in 0..MaxBatch}

(***************************************************************************)
(* The user_events table and the errors the JDBC append can raise          *)
(***************************************************************************)
DUPLICATE_KEY == <<"d","u","p","l","i","c","a","t","e"," ","k","e","y">>
PgDuplicateMsg == <<"E","R","R","O","R",":"," ","d","u","p","l","i","c","a","t","e"," ","k","e","y"," ","v","a","l","u","e">>
MixedCaseDuplicateMsg == <<"D","u","p","l","i","c","a","t","e"," ","K","e","y"," ","(","e","v","e","n","t","_","i","d",")">>
ConnectionRefusedMsg == <<"C","o","n","n","e","c","t","i","o","n"," ","r","e","f","u","s","e","d">>
ReadTimedOutMsg == <<"R","e","a","d"," ","t","i","m","e","d"," ","o","u","t">>

UniqueViolationMessages == {PgDuplicateMsg, MixedCaseDuplicateMsg}
TransientMessages == {ConnectionRefusedMsg, ReadTimedOutMsg}

SinkIds(rows) == {r["event_id"] : r \in rows}

\* rows of df the unique key on event_id rejects: the key is already stored,
\* or df itself carries the key more than once
Rejected(df, stored) ==
    {r \in DOMAIN df :
        \/ r["event_id"] \in SinkIds(stored)
        \/ df[r] > 1
        \/ \E q \in DOMAIN df : q # r /\ q["event_id"] = r["event_id"]}

\* the test of line 345 without .lower()
IsDuplicateKeyErrorCaseSensitive(msg) == Contains(DUPLICATE_KEY, msg)

\* no special case for duplicate keys
IsDuplicateKeyErrorNever(msg) == FALSE

\* line 345
IsDuplicateKeyError(msg) == Contains(DUPLICATE_KEY, LowerStr(msg))

\* one attempt too many
RetryAllowedOffByOne(n) == n <= MAX_RETRIES

\* line 353
RetryAllowed(n) == n < MAX_RETRIES

(***************************************************************************)
(* write_to_postgres_with_retry                                            *)
(***************************************************************************)
Finished == {"returned", "raised"}

NoErrorOutput == [status |-> "none", rows |-> EmptyBag, raised |-> FALSE]

\* no micro-batch has been handed over yet, the table is empty
PipelineIdle ==
    /\ pc = "idle"
    /\ batch_df = EmptyBag
    /\ valid_df = EmptyBag
    /\ invalid_df = EmptyBag
    /\ deduped_df = EmptyBag
    /\ attempt = 0
    /\ error_msg = NULL
    /\ outcomes = <<>>
    /\ slept = 0
    /\ sink = {}
    /\ sink_before = {}
    /\ error_out = NoErrorOutput

\* the producer process is not running
LimiterIdle ==
    /\ now = 0
    /\ events_per_second = 0
    /\ events_this_second = 0
    /\ second_start = 0
    /\ rl_pc = "ready"
    /\ wake_at = 0
    /\ calls_left = 0
    /\ first_call = -1
    /\ returns = <<>>

ProducerIdle ==
    /\ gen_pc = "off"
    /\ shutdown_requested = FALSE
    /\ batch_size = 0
    /\ duration = NULL
    /\ start_time = 0
    /\ events = <<>>
    /\ iteration = 0
    /\ generated = 0
    /\ total_events = 0
    /\ total_files = 0
    /\ files = <<>>
    /\ writing = 0
    /\ last_read = NULL
    /\ at_shutdown = NULL
    /\ file_clock = 0

\* main has handed control to the streaming query
StartupOver ==
    /\ st_pc = "streaming"
    /\ max_retries = 0
    /\ st_attempt = 0
    /\ st_tests = 0
    /\ st_connected = TRUE
    /\ st_slept = 0
    /\ st_started = TRUE

Init == PipelineIdle /\ LimiterIdle /\ ProducerIdle /\ StartupOver

\* write_errors without its try/except: the failure leaves the function
write_errors_uncaught(df) ==
    {[status |-> "saved", rows |-> df, raised |-> FALSE],
     [status |-> "failed", rows |-> EmptyBag, raised |-> TRUE]}

\* write_errors: the write may fail, the failure is caught (lines 370-376)
write_errors(df) ==
    {[status |-> "saved", rows |-> df, raised |-> FALSE],
     [status |-> "failed", rows |-> EmptyBag, raised |-> FALSE]}

\* lines 293-295 with the early return left out
AfterValidationAlwaysWrites(valid_count) == "dedup"

\* lines 293-295: no valid record, return; otherwise go on to line 297
AfterValidation(valid_count) ==
    IF valid_count = 0 THEN "returned" ELSE "dedup"

\* lines 271-295: foreachBatch hands over a micro-batch; empty check,
\* validation, quarantine of the invalid rows, early return without valid rows
ProcessBatch(df) ==
    /\ pc = "idle"
    /\ batch_df' = df
    /\ sink_before' = sink
    /\ outcomes' = <<>>
    /\ slept' = 0
    /\ attempt' = 0
    /\ error_msg' = NULL
    /\ deduped_df' = EmptyBag
    /\ UNCHANGED <<sink, limiterVars, producerVars, startupVars>>
    /\ IF IsEmpty(df)
       THEN /\ valid_df' = EmptyBag
            /\ invalid_df' = EmptyBag
            /\ error_out' = NoErrorOutput
            /\ pc' = "returned"
       ELSE LET split == clean_and_validate_data(df) IN
            /\ valid_df' = split[1]
            /\ invalid_df' = split[2]
            /\ IF Count(split[2]) > 0
               THEN error_out' \in write_errors(split[2])
               ELSE error_out' = NoErrorOutput
            /\ pc' = IF error_out'.raised THEN "raised"
                     ELSE AfterValidation(Count(split[1]))

\* lines 297-307: deduplicate, prepare, enter the retry loop
DeduplicateAndPrepare ==
    /\ pc = "dedup"
    /\ deduped_df' \in deduplicate_events(valid_df)
    /\ attempt' = 1
    /\ pc' = "write"
    /\ UNCHANGED <<batch_df, valid_df, invalid_df, error_msg, outcomes, slept,
                   sink, sink_before, error_out>>
    /\ UNCHANGED <<limiterVars, producerVars, startupVars>>

final_df == prepare_for_postgres(deduped_df)

\* lines 308-339: the append succeeds, every row is inserted
WriteSucceeds ==
    /\ pc = "write"
    /\ Rejected(final_df, sink) = {}
    /\ sink' = sink \cup DOMAIN final_df
    /\ outcomes' = Append(outcomes, NULL)
    /\ pc' = "returned"
    /\ UNCHANGED <<batch_df, valid_df, invalid_df, deduped_df, attempt,
                   error_msg, slept, sink_before, error_out>>
    /\ UNCHANGED <<limiterVars, producerVars, startupVars>>

\* lines 308-342: the append raises.  Each partition of final_df is inserted
\* in a transaction of its own, so the rows of the partitions that committed
\* before the failure stay in the table; a partition that holds a rejected
\* row is rolled back.  A connection failure can hit a partition without
\* rows, after every row has been committed by the others.
WriteFails ==
    /\ pc = "write"
    /\ LET rejected == Rejected(final_df, sink)
           accepted == DOMAIN final_df \ rejected
       IN \E committed \in SUBSET accepted :
          \E msg \in TransientMessages \cup
                     (IF rejected = {} THEN {} ELSE UniqueViolationMessages) :
             /\ sink' = sink \cup committed
             /\ error_msg' = Val(msg)
             /\ outcomes' = Append(outcomes, Val(msg))
    /\ pc' = "except"
    /\ UNCHANGED <<batch_df, valid_df, invalid_df, deduped_df, attempt, slept,
                   sink_before, error_out>>
    /\ UNCHANGED <<limiterVars, producerVars, startupVars>>

\* the last failure is logged and not re-raised
HandleExceptionSwallowed ==
    /\ pc = "except"
    /\ pc' = IF IsDuplicateKeyError(Get(error_msg)) THEN "returned"
             ELSE IF RetryAllowed(attempt) THEN "sleep"
             ELSE "returned"
    /\ UNCHANGED <<batch_df, valid_df, invalid_df, deduped_df, attempt,
                   error_msg, outcomes, slept, sink, sink_before, error_out>>
    /\ UNCHANGED <<limiterVars, producerVars, startupVars>>

\* lines 341-358: duplicate key returns, otherwise retry or re-raise
HandleException ==
    /\ pc = "except"
    /\ pc' = IF IsDuplicateKeyError(Get(error_msg)) THEN "returned"
             ELSE IF RetryAllowed(attempt) THEN "sleep"
             ELSE "raised"
    /\ UNCHANGED <<batch_df, valid_df, invalid_df, deduped_df, attempt,
                   error_msg, outcomes, slept, sink, sink_before, error_out>>
    /\ UNCHANGED <<limiterVars, producerVars, startupVars>>

\* line 355 and the next iteration of line 307
SleepAndRetry ==
    /\ pc = "sleep"
    /\ slept' = slept + RETRY_DELAY_SECONDS
    /\ attempt' = attempt + 1
    /\ pc' = "write"
    /\ UNCHANGED <<batch_df, valid_df, invalid_df, deduped_df, error_msg,
                   outcomes, sink, sink_before, error_out>>
    /\ UNCHANGED <<limiterVars, producerVars, startupVars>>

\* the invocation is over (return, or the exception has left the function):
\* its locals are gone, the table stays; the next trigger, or the restarted
\* query, may hand over any batch, the same one included
NextTrigger ==
    /\ pc \in Finished
    /\ pc' = "idle"
    /\ batch_df' = EmptyBag
    /\ valid_df' = EmptyBag
    /\ invalid_df' = EmptyBag
    /\ deduped_df' = EmptyBag
    /\ attempt' = 0
    /\ error_msg' = NULL
    /\ outcomes' = <<>>
    /\ slept' = 0
    /\ sink_before' = sink
    /\ error_out' = NoErrorOutput
    /\ UNCHANGED <<sink, limiterVars, producerVars, startupVars>>

Next ==
    \/ \E df \in RawBatches : ProcessBatch(df)
    \/ DeduplicateAndPrepare
    \/ WriteSucceeds
    \/ WriteFails
    \/ HandleException
    \/ SleepAndRetry
    \/ NextTrigger

Spec == Init /\ [][Next]_vars

(***************************************************************************)
(* data_generator.py: RateLimiter                                          *)
(***************************************************************************)
\* the test of line 281 with > for >=
AtLimitOneLate(count, rate) == count > rate

\* line 281
AtLimit(count, rate) == count >= rate

\* lines 265-269, the limiter is constructed at the current time
RateLimiterInit(rate) ==
    /\ events_per_second = rate
    /\ events_this_second = 0
    /\ second_start = now
    /\ rl_pc = "ready"
    /\ wake_at = 0

\* lines 273-288 up to time.sleep: window reset, limit test, and either the
\* increment and return (rl_pc stays "ready") or the start of the sleep
WaitEnters ==
    LET current_time == now
        expired == current_time - second_start >= TicksPerSecond
        count == IF expired THEN 0 ELSE events_this_second
        start == IF expired THEN current_time ELSE second_start
        sleep_time == TicksPerSecond - (current_time - start)
    IN /\ rl_pc = "ready"
       /\ IF AtLimit(count, events_per_second)
          THEN IF sleep_time > 0
               THEN /\ rl_pc' = "sleeping"
                    /\ wake_at' = now + sleep_time
                    /\ events_this_second' = count
                    /\ second_start' = start
               ELSE /\ rl_pc' = "ready"
                    /\ wake_at' = wake_at
                    /\ events_this_second' = 1
                    /\ second_start' = now
          ELSE /\ rl_pc' = "ready"
               /\ wake_at' = wake_at
               /\ events_this_second' = count + 1
               /\ second_start' = start
       /\ UNCHANGED events_per_second

\* lines 284-288 without the reset of lines 285-286
WaitWakesWithoutReset ==
    /\ rl_pc = "sleeping"
    /\ now >= wake_at
    /\ rl_pc' = "ready"
    /\ events_this_second' = events_this_second + 1
    /\ UNCHANGED <<events_per_second, wake_at, second_start>>

\* lines 284-288: the sleep is over, counter and window start are reset
WaitWakes ==
    /\ rl_pc = "sleeping"
    /\ now >= wake_at
    /\ rl_pc' = "ready"
    /\ events_this_second' = 1
    /\ second_start' = now
    /\ UNCHANGED <<events_per_second, wake_at>>

\* a caller calls wait()
WaitCall ==
    /\ calls_left > 0
    /\ WaitEnters
    /\ calls_left' = calls_left - 1
    /\ first_call' = IF first_call = -1 THEN now ELSE first_call
    /\ returns' = IF rl_pc' = "ready" THEN Append(returns, now) ELSE returns
    /\ UNCHANGED <<now, pipelineVars, producerVars, startupVars>>

\* wait() returns to the caller after its sleep
WaitReturn ==
    /\ gen_pc = "off"
    /\ WaitWakes
    /\ returns' = Append(returns, now)
    /\ UNCHANGED <<now, calls_left, first_call, pipelineVars, producerVars,
                   startupVars>>

\* time passes while the process sleeps in time.sleep (line 284)
SleepTick ==
    /\ rl_pc = "sleeping"
    /\ now < wake_at
    /\ now' = now + 1
    /\ UNCHANGED <<limiterState, limiterLog, pipelineVars, producerVars,
                   startupVars>>

\* time passes otherwise: the caller is busy or idle, or the sleep of
\* line 284 lasts longer than asked for
Elapse ==
    /\ rl_pc = "sleeping" => now >= wake_at
    /\ now < MaxSeconds * TicksPerSecond
    /\ now' = now + 1
    /\ UNCHANGED <<limiterState, limiterLog, pipelineVars, producerVars,
                   startupVars>>

\* time passes between the construction of the limiter and the first call
ElapseBeforeFirstCall ==
    /\ first_call = -1
    /\ now < MaxSeconds * TicksPerSecond
    /\ now' = now + 1
    /\ UNCHANGED <<limiterState, limiterLog, pipelineVars, producerVars,
                   startupVars>>

\* a limiter of any rate, called at arbitrary times
LimiterInit ==
    /\ PipelineIdle /\ ProducerIdle /\ StartupOver
    /\ now = 0
    /\ \E rate \in -1..MaxRate : RateLimiterInit(rate)
    /\ calls_left = MaxCalls
    /\ first_call = -1
    /\ returns = <<>>

LimiterNext == WaitCall \/ WaitReturn \/ SleepTick \/ Elapse

SpecLimiter == LimiterInit /\ [][LimiterNext]_vars

\* RateLimiter(5) and twelve wait() calls issued back to back: after the
\* first call time passes only inside wait()
BackToBackInit ==
    /\ PipelineIdle /\ ProducerIdle /\ StartupOver
    /\ now = 0
    /\ RateLimiterInit(5)
    /\ calls_left = 12
    /\ first_call = -1
    /\ returns = <<>>

BackToBackNext == WaitCall \/ WaitReturn \/ SleepTick \/ ElapseBeforeFirstCall

SpecBackToBack == BackToBackInit /\ [][BackToBackNext]_vars

(***************************************************************************)
(* data_generator.py: run_generator, write_events_to_csv, signal_handler   *)
(***************************************************************************)
notProducer == <<pipelineVars, startupVars, limiterLog>>

\* lines 334-336
DurationReached ==
    /\ ~IsNull(duration)
    /\ now - start_time >= Get(duration) * TicksPerSecond

\* line 332 and lines 334-342: the while test, the duration check, and the
\* start of a new batch
LoopTop ==
    /\ gen_pc = "loop"
    /\ IF shutdown_requested \/ DurationReached
       THEN /\ gen_pc' = "stopped"
            /\ UNCHANGED <<events, iteration>>
       ELSE /\ gen_pc' = "for"
            /\ events' = <<>>
            /\ iteration' = 0
    /\ UNCHANGED <<shutdown_requested, batch_size, duration, start_time,
                   generated, total_events, total_files, files, writing,
                   last_read, at_shutdown, file_clock>>
    /\ UNCHANGED <<now, limiterState, notProducer>>

\* the for loop without the test of lines 345-346
BreakNever == FALSE

\* lines 345-346 with the duration checked inside the batch too
BreakOnShutdownOrDuration == shutdown_requested \/ DurationReached

\* lines 345-346
BreakOnShutdown == shutdown_requested

\* lines 344-347: the for loop ends, or breaks on the flag, or calls
\* rate_limiter.wait(), which returns at once or starts to sleep
ForStep ==
    /\ gen_pc = "for"
    /\ IF iteration = batch_size \/ BreakOnShutdown
       THEN /\ gen_pc' = "flush"
            /\ UNCHANGED limiterState
       ELSE /\ IsNull(duration) => generated < MaxEvents
            /\ WaitEnters
            /\ gen_pc' = IF rl_pc' = "sleeping" THEN "waiting" ELSE "append"
    /\ UNCHANGED <<shutdown_requested, batch_size, duration, start_time,
                   events, iteration, generated, total_events, total_files,
                   files, writing, last_read, at_shutdown, file_clock>>
    /\ UNCHANGED <<now, notProducer>>

\* line 347: rate_limiter.wait() returns after its sleep; a signal handled
\* during the sleep does not cut it short
WaitDone ==
    /\ gen_pc = "waiting"
    /\ WaitWakes
    /\ gen_pc' = "append"
    /\ UNCHANGED <<shutdown_requested, batch_size, duration, start_time,
                   events, iteration, generated, total_events, total_files,
                   files, writing, last_read, at_shutdown, file_clock>>
    /\ UNCHANGED <<now, notProducer>>

\* line 348: events.append(generate_event()); the events are numbered in
\* the order of their generation
AppendEvent ==
    /\ gen_pc = "append"
    /\ generated' = generated + 1
    /\ events' = Append(events, generated + 1)
    /\ iteration' = iteration + 1
    /\ gen_pc' = "for"
    /\ UNCHANGED <<shutdown_requested, batch_size, duration, start_time,
                   total_events, total_files, files, writing, last_read,
                   at_shutdown, file_clock>>
    /\ UNCHANGED <<now, limiterState, notProducer>>

\* line 351 flushing full batches only
FlushOnlyFullBatches(evs) == Len(evs) = batch_size

\* line 351 writing every batch
FlushAlways(evs) == TRUE

\* line 351: if events
FlushNeeded(evs) == evs # <<>>

\* the directory after open(filepath, 'w'): the file exists and is empty,
\* whatever it held before
Created(dir, name, rows) ==
    [n \in DOMAIN dir \cup {name} |->
        IF n = name THEN [rows |-> rows, disk |-> 0, closed |-> FALSE]
        ELSE dir[n]]

\* the directory after lines of the open file have reached the disk
Written(dir, name, lines, done) ==
    [dir EXCEPT ![name] = [rows |-> dir[name].rows, disk |-> lines,
                           closed |-> done]]

\* header and one line per event
LinesOf(rows) == 1 + Len(rows)

\* line 351 and lines 228-239: a batch without events is skipped; otherwise
\* the file is named after the clock and opened for writing in the input
\* directory
OpenFile ==
    /\ gen_pc = "flush"
    /\ IF FlushNeeded(events)
       THEN /\ files' = Created(files, file_clock, events)
            /\ writing' = file_clock
            /\ gen_pc' = "write"
       ELSE /\ gen_pc' = "loop"
            /\ UNCHANGED <<files, writing>>
    /\ UNCHANGED <<shutdown_requested, batch_size, duration, start_time,
                   events, iteration, generated, total_events, total_files,
                   last_read, at_shutdown, file_clock>>
    /\ UNCHANGED <<now, limiterState, notProducer>>

\* lines 241-242: the buffer of the open file is written out before close,
\* a part of the content is on disk
BufferFlushed ==
    /\ gen_pc = "write"
    /\ \E lines \in (files[writing].disk + 1)..Len(files[writing].rows) :
          files' = Written(files, writing, lines, FALSE)
    /\ UNCHANGED <<gen_pc, shutdown_requested, batch_size, duration,
                   start_time, events, iteration, generated, total_events,
                   total_files, writing, last_read, at_shutdown, file_clock>>
    /\ UNCHANGED <<now, limiterState, notProducer>>

\* lines 239-244 and 353-354: the with block closes the file, the whole
\* content is on disk; the counters are updated.  Since the file was named
\* the clock of the file names has ticked, or it has not: a platform's clock
\* can tick less often than files are written.
CloseFile ==
    /\ gen_pc = "write"
    /\ files' = Written(files, writing, LinesOf(files[writing].rows), TRUE)
    /\ writing' = 0
    /\ \E ticks \in {0, 1} : file_clock' = file_clock + ticks
    /\ total_events' = total_events + Len(events)
    /\ total_files' = total_files + 1
    /\ gen_pc' = "loop"
    /\ UNCHANGED <<shutdown_requested, batch_size, duration, start_time,
                   events, iteration, generated, last_read, at_shutdown>>
    /\ UNCHANGED <<now, limiterState, notProducer>>

\* write_events_to_csv calls so far
OpenedFiles == total_files + (IF gen_pc = "write" THEN 1 ELSE 0)

\* line 228: datetime.now() is the local wall clock, which is set back at
\* the end of daylight saving time and by clock adjustments; whenever that
\* happens, it shows in the next reading of the clock
LocalTimeSetBack ==
    /\ gen_pc = "flush"
    /\ file_clock' \in 1..(file_clock - 1)
    /\ UNCHANGED <<gen_pc, shutdown_requested, batch_size, duration,
                   start_time, events, iteration, generated, total_events,
                   total_files, files, writing, last_read, at_shutdown>>
    /\ UNCHANGED <<now, limiterState, notProducer>>

\* the signal with Python's default handling: KeyboardInterrupt is raised
\* at the point the program has reached and leaves the loop
signal_handler_raises ==
    /\ gen_pc \notin {"off", "stopped"}
    /\ ~shutdown_requested
    /\ shutdown_requested' = TRUE
    /\ gen_pc' = "stopped"
    /\ at_shutdown' = Val([generated |-> generated,
                           opened |-> OpenedFiles,
                           gen_pc |-> gen_pc])
    /\ UNCHANGED <<batch_size, duration, start_time, events,
                   iteration, generated, total_events, total_files, files,
                   writing, last_read, file_clock>>
    /\ UNCHANGED <<now, limiterState, notProducer>>

\* lines 116-124: SIGINT or SIGTERM arrives at any point of the run
signal_handler ==
    /\ gen_pc \notin {"off", "stopped"}
    /\ ~shutdown_requested
    /\ shutdown_requested' = TRUE
    /\ at_shutdown' = Val([generated |-> generated,
                           opened |-> OpenedFiles,
                           gen_pc |-> gen_pc])
    /\ UNCHANGED <<gen_pc, batch_size, duration, start_time, events,
                   iteration, generated, total_events, total_files, files,
                   writing, last_read, file_clock>>
    /\ UNCHANGED <<now, limiterState, notProducer>>

\* spark_streaming_to_postgres.py lines 405-412: the file source lists the
\* input directory and reads a file it finds there
PipelineReads ==
    /\ gen_pc # "off"
    /\ \E n \in DOMAIN files :
          last_read' = Val([lines |-> files[n].disk,
                           of |-> LinesOf(files[n].rows)])
    /\ UNCHANGED <<gen_pc, shutdown_requested, batch_size, duration,
                   start_time, events, iteration, generated, total_events,
                   total_files, files, writing, at_shutdown, file_clock>>
    /\ UNCHANGED <<now, limiterState, notProducer>>

\* lines 315-318: run_generator(events_per_second, batch_size, duration)
ProducerInit ==
    /\ PipelineIdle /\ StartupOver
    /\ now = 0
    /\ \E rate \in 1..MaxRate : RateLimiterInit(rate)
    /\ calls_left = 0
    /\ first_call = -1
    /\ returns = <<>>
    /\ gen_pc = "loop"
    /\ shutdown_requested = FALSE
    /\ batch_size \in 1..MaxBatchSize
    /\ duration \in {NULL} \cup {Val(d) : d \in 1..MaxDuration}
    /\ start_time = now
    /\ events = <<>>
    /\ iteration = 0
    /\ generated = 0
    /\ total_events = 0
    /\ total_files = 0
    /\ files = <<>>
    /\ writing = 0
    /\ last_read = NULL
    /\ at_shutdown = NULL
    /\ file_clock = 1

ProducerStep ==
    LoopTop \/ ForStep \/ WaitDone \/ AppendEvent \/ OpenFile \/ CloseFile

ProducerNext ==
    \/ ProducerStep
    \/ BufferFlushed
    \/ signal_handler
    \/ PipelineReads
    \/ LocalTimeSetBack
    \/ SleepTick
    \/ Elapse

SpecProducer == ProducerInit /\ [][ProducerNext]_vars

\* the interpreter goes on executing the program, and a sleep ends
FairSpecProducer ==
    SpecProducer /\ WF_vars(ProducerStep) /\ WF_vars(SleepTick)

\* run_generator with a duration, and no signal arriving
DurationInit == ProducerInit /\ ~IsNull(duration)

DurationNext == ProducerStep \/ SleepTick \/ Elapse

SpecDuration == DurationInit /\ [][DurationNext]_vars

FairSpecDuration ==
    SpecDuration /\ WF_vars(ProducerStep) /\ WF_vars(SleepTick)

(***************************************************************************)
(* spark_streaming_to_postgres.py: main, wait_for_postgres                 *)
(***************************************************************************)
\* line 467: the defaults of max_retries and delay, which main uses
DefaultMaxRetries == 30
DefaultDelay == 5

notStartup == <<pipelineVars, limiterVars, producerVars>>

\* line 474 with one iteration too many
LoopContinuesOnceMore(attempt_, retries) == attempt_ <= retries

\* line 474: for attempt in range(1, max_retries + 1), attempt_ being the
\* number of iterations done
LoopContinues(attempt_, retries) == attempt_ < retries

\* lines 474-476 and 439-465: the next iteration tests the connection;
\* test_postgres_connection returns True, or False when the read raised
TestConnection ==
    /\ st_pc = "for"
    /\ LoopContinues(st_attempt, max_retries)
    /\ st_attempt' = st_attempt + 1
    /\ st_tests' = st_tests + 1
    /\ \E ok \in BOOLEAN :
          /\ st_connected' = ok
          /\ st_pc' = IF ok THEN "start" ELSE "sleep"
    /\ UNCHANGED <<max_retries, st_slept, st_started, notStartup>>

\* lines 478-479: time.sleep(delay) after a failed test, the last included
SleepAfterFailure ==
    /\ st_pc = "sleep"
    /\ st_slept' = st_slept + DefaultDelay
    /\ st_pc' = "for"
    /\ UNCHANGED <<max_retries, st_attempt, st_tests, st_connected,
                   st_started, notStartup>>

\* lines 481-482 and 497-499, 507-509: the loop is exhausted,
\* wait_for_postgres returns False, main logs the error and returns
GiveUp ==
    /\ st_pc = "for"
    /\ ~LoopContinues(st_attempt, max_retries)
    /\ st_pc' = "aborted"
    /\ UNCHANGED <<max_retries, st_attempt, st_tests, st_connected, st_slept,
                   st_started, notStartup>>

\* lines 476, 497 and 502: wait_for_postgres returned True, main calls
\* start_streaming_job
StartStreaming ==
    /\ st_pc = "start"
    /\ st_started' = TRUE
    /\ st_pc' = "streaming"
    /\ UNCHANGED <<max_retries, st_attempt, st_tests, st_connected, st_slept,
                   notStartup>>

\* line 497: main calls wait_for_postgres
StartupInit ==
    /\ PipelineIdle /\ LimiterIdle /\ ProducerIdle
    /\ st_pc = "for"
    /\ max_retries \in (0..MaxStartupRetries) \cup {DefaultMaxRetries}
    /\ st_attempt = 0
    /\ st_tests = 0
    /\ st_connected = FALSE
    /\ st_slept = 0
    /\ st_started = FALSE

StartupNext == TestConnection \/ SleepAfterFailure \/ GiveUp \/ StartStreaming

SpecStartup == StartupInit /\ [][StartupNext]_vars

\* every connection test returns and every sleep ends
FairSpecStartup == SpecStartup /\ WF_vars(StartupNext)

(***************************************************************************)
(* Properties                                                              *)
(***************************************************************************)
InLoop == {"write", "except", "sleep"}
Transient == {Val(m) : m \in TransientMessages}
UniqueViolation == {Val(m) : m \in UniqueViolationMessages}
Succeeded == NULL
RowsWithId(rows, id) == {r \in rows : r["event_id"] = id}
OneRowPerEventId(rows) == \A r \in rows : RowsWithId(rows, r["event_id"]) = {r}

\* C1: whenever the invocation returns normally for a batch with at least one
\* valid record, every event_id of the valid batch has a row in the table
C1_ReturnMeansStored ==
    (pc = "returned" /\ Count(valid_df) > 0)
        => EventIds(valid_df) \subseteq SinkIds(sink)

\* C2: valid and invalid partition the raw batch:
\* valid_count + invalid_count = record_count
C2_ValidationPartitions ==
    Count(valid_df) + Count(invalid_df) = Count(batch_df)

\* C3: every row handed to the sink, and every row in the table, has
\* event_id, user_id and product_id present, a valid event_type, price > 0
\* and a non-null parsed timestamp
MeetsSinkConditions(r) ==
    /\ ~IsNull(r["event_id"])
    /\ ~IsNull(r["user_id"])
    /\ ~IsNull(r["product_id"])
    /\ ~IsNull(r["event_type"])
    /\ Get(r["event_type"]) \in {view, add_to_cart, purchase}
    /\ ~IsNull(r["price"])
    /\ Get(r["price"]) > 0
    /\ ~IsNull(r["event_timestamp"])

NonEmptyAfterTrim(v) == ~IsNull(v) /\ Trim(v) # Val(<<>>)

ShouldBeValid(raw) ==
    /\ NonEmptyAfterTrim(raw["event_id"])
    /\ NonEmptyAfterTrim(raw["user_id"])
    /\ NonEmptyAfterTrim(raw["product_id"])
    /\ ~IsNull(raw["event_type"])
    /\ Lower(Trim(raw["event_type"])) \in {Val(view), Val(add_to_cart), Val(purchase)}
    /\ ~IsNull(raw["price"])
    /\ Get(raw["price"]) > 0
    /\ ~IsNull(ToTimestamp(raw["timestamp"]))

ClassifiedValid(raw) == DropFlagAndTimestamp(FlagRow(raw)) \in DOMAIN valid_df

C4_ValidIffConditions ==
    \A raw \in DOMAIN batch_df : ClassifiedValid(raw) <=> ShouldBeValid(raw)

\* C5: writing a batch whose event_ids are all stored already leaves the
\* table as it was, one row per event_id, and when the table answers (no
\* connection failure) the invocation returns on the first attempt without a
\* delay and without raising
C5_RewriteIsIdempotent ==
    (pc \in Finished /\ outcomes # <<>> /\
     EventIds(deduped_df) \subseteq SinkIds(sink_before))
        => /\ sink = sink_before
           /\ OneRowPerEventId(sink)
           /\ (\A i \in 1..Len(outcomes) : outcomes[i] \notin Transient)
                 => (pc = "returned" /\ Len(outcomes) = 1 /\ slept = 0)

C5_Witness ==
    /\ pc = "returned"
    /\ Len(outcomes) = 1
    /\ outcomes[1] \in UniqueViolation
    /\ Count(deduped_df) = MaxBatch
    /\ DOMAIN final_df \subseteq sink_before
    /\ sink = sink_before

\* C6: an exception whose message contains "duplicate key" in any letter
\* case makes the invocation return at once, on every attempt: no further
\* attempt, no delay, no error
C6_DuplicateKeyReturnsAtOnce ==
    [][(pc = "except" /\ error_msg \in UniqueViolation)
          => (pc' = "returned" /\ slept' = slept /\ outcomes' = outcomes /\
              attempt' = attempt /\ sink' = sink)]_vars

C6_Witness ==
    /\ pc = "returned"
    /\ attempt = MAX_RETRIES
    /\ Len(outcomes) = MAX_RETRIES
    /\ outcomes[MAX_RETRIES] = Val(MixedCaseDuplicateMsg)
    /\ slept = (MAX_RETRIES - 1) * RETRY_DELAY_SECONDS

\* C7: when MAX_RETRIES attempts have all failed with non-duplicate errors
\* the invocation ends by raising the error of the last attempt
C7_ExhaustionRaisesLastError ==
    (/\ Len(outcomes) >= MAX_RETRIES
     /\ \A i \in 1..MAX_RETRIES : outcomes[i] \in Transient
     /\ pc # "except")
        => (pc = "raised" /\ error_msg = outcomes[MAX_RETRIES])

C7_Witness ==
    /\ pc = "raised"
    /\ Len(outcomes) = MAX_RETRIES
    /\ outcomes[1] = Val(ConnectionRefusedMsg)
    /\ outcomes[MAX_RETRIES] = Val(ReadTimedOutMsg)
    /\ error_msg = Val(ReadTimedOutMsg)

\* C8: at most MAX_RETRIES appends per batch; attempt k starts after exactly
\* k - 1 delays of RETRY_DELAY_SECONDS, one after each failed non-duplicate
\* attempt below MAX_RETRIES, and nothing is slept after a success, a
\* duplicate key or the last failure
DelaysDue(n) ==
    Cardinality({i \in 1..n : outcomes[i] \in Transient /\ i < MAX_RETRIES})

C8_RetrySchedule ==
    /\ Len(outcomes) <= MAX_RETRIES
    /\ pc = "write" =>
          /\ Len(outcomes) = attempt - 1
          /\ \A i \in 1..Len(outcomes) : outcomes[i] \in Transient
          /\ slept = RETRY_DELAY_SECONDS * (attempt - 1)
    /\ pc \in {"except", "sleep"} =>
          slept = RETRY_DELAY_SECONDS * (Len(outcomes) - 1)
    /\ pc \in Finished =>
          slept = RETRY_DELAY_SECONDS * DelaysDue(Len(outcomes))

C8_Witness ==
    /\ pc = "raised"
    /\ Len(outcomes) = MAX_RETRIES
    /\ slept = (MAX_RETRIES - 1) * RETRY_DELAY_SECONDS

\* C9: two non-duplicate failures followed by a successful third attempt
\* leave every record of the batch stored exactly once, by that one
\* successful append, and no duplicate-key error occurred
C9_ThirdAttemptSucceeds ==
    (/\ Len(outcomes) = 3
     /\ outcomes[1] \in Transient
     /\ outcomes[2] \in Transient
     /\ outcomes[3] = Succeeded)
        => /\ pc = "returned"
           /\ \A id \in EventIds(valid_df) :
                 Cardinality(RowsWithId(sink, id)) = 1
           /\ DOMAIN final_df \subseteq sink
           /\ sink \ sink_before = DOMAIN final_df
           /\ \A i \in 1..3 : outcomes[i] \notin UniqueViolation

C9_Witness ==
    /\ pc = "returned"
    /\ Len(outcomes) = 3
    /\ outcomes[1] \in Transient
    /\ outcomes[2] \in Transient
    /\ outcomes[3] = Succeeded
    /\ Count(valid_df) > Count(deduped_df)
    /\ sink_before # {}

\* C10: deduplicate_events keeps exactly one record for each event_id of its
\* input, and each kept record is a record of the input with that event_id
C10_OneRecordPerEventId ==
    (pc \in InLoop \cup Finished /\ Count(valid_df) > 0)
        => /\ \A r \in DOMAIN deduped_df :
                 deduped_df[r] = 1 /\ r \in DOMAIN valid_df
           /\ OneRowPerEventId(DOMAIN deduped_df)
           /\ EventIds(deduped_df) = EventIds(valid_df)

C10_Witness ==
    /\ pc = "write"
    /\ Count(deduped_df) = 1
    /\ \E r, q \in DOMAIN valid_df :
          r # q /\ r["event_id"] = q["event_id"] /\ r["price"] # q["price"]

\* C11: for a batch of which i records fail validation and whose valid
\* records carry d distinct event_ids, none of them in the table yet, an
\* invocation that meets no failure writes exactly d rows to the table and
\* exactly i records to the quarantine
C11_InvalidCount ==
    Count(Filter(batch_df, [r \in DOMAIN batch_df |-> Val(~ShouldBeValid(r))]))

C11_DistinctValidIds ==
    {Trim(r["event_id"]) : r \in {x \in DOMAIN batch_df : ShouldBeValid(x)}}

C11_NoFailure ==
    /\ pc = "returned"
    /\ error_out.status # "failed"
    /\ \A k \in 1..Len(outcomes) : outcomes[k] = Succeeded
    /\ C11_DistinctValidIds \cap SinkIds(sink_before) = {}

C11_Counts ==
    /\ Cardinality(sink \ sink_before) = Cardinality(C11_DistinctValidIds)
    /\ Count(error_out.rows) = C11_InvalidCount

C11_ExactCounts == C11_NoFailure => C11_Counts

\* the counts are right for the batches whose records the code classifies
\* as the validation conditions say
C11_WhereClassificationAgrees ==
    (C11_NoFailure /\ C2_ValidationPartitions /\ C4_ValidIffConditions)
        => C11_Counts

C11_WhereClassificationAgreesWitness ==
    /\ C11_NoFailure /\ C2_ValidationPartitions /\ C4_ValidIffConditions
    /\ C11_InvalidCount = 1
    /\ Cardinality(C11_DistinctValidIds) = 1
    /\ sink # sink_before

\* C12: a failure of the quarantine write never fails the batch: the
\* invocation goes on as it does after a quarantine write that succeeded (it
\* returns at once without valid records, and otherwise attempts the sink
\* write), and it raises only after MAX_RETRIES failed sink writes
C12_QuarantineFailureIsNotFatal ==
    (pc # "idle" /\ error_out.status = "failed") =>
        /\ Count(valid_df) = 0 => pc = "returned" /\ outcomes = <<>>
        /\ (Count(valid_df) > 0 /\ pc \in Finished) => outcomes # <<>>
        /\ pc = "raised" => Len(outcomes) = MAX_RETRIES

C12_Witness ==
    /\ error_out.status = "failed"
    /\ pc = "returned"
    /\ outcomes = <<Succeeded>>
    /\ EventIds(valid_df) \subseteq SinkIds(sink)
    /\ sink # sink_before

\* C13: for an empty batch, and for a batch without a valid record, the
\* invocation returns without a sink write: the table is unchanged, no
\* attempt is made and no delay is taken
C13_NothingValidIsANoOp ==
    (pc # "idle" /\ (IsEmpty(batch_df) \/ Count(valid_df) = 0)) =>
        /\ pc = "returned"
        /\ outcomes = <<>>
        /\ attempt = 0
        /\ slept = 0
        /\ sink = sink_before

C13_Witness ==
    /\ pc = "returned"
    /\ ~IsEmpty(batch_df)
    /\ Count(valid_df) = 0
    /\ sink_before # {}
    /\ sink = sink_before

C13_WitnessEmptyBatch ==
    /\ pc = "returned"
    /\ IsEmpty(batch_df)
    /\ sink_before # {}

\* C14: for a rate R >= 1, at most R calls of wait() return in any rolling
\* one-second interval: return number i + R is at least one second after
\* return number i
C14_RollingWindow ==
    events_per_second >= 1 =>
        \A i \in 1..Len(returns) :
            i + events_per_second <= Len(returns) =>
                returns[i + events_per_second] - returns[i] >= TicksPerSecond

\* C15: a limiter constructed with events_per_second <= 0 imposes no limit:
\* wait() never blocks the caller
C15_NonPositiveRateNeverBlocks ==
    events_per_second <= 0 => rl_pc # "sleeping"

\* C16 as stated: once the shutdown flag is set, no further event is
\* generated
C16_NoEventAfterShutdown ==
    shutdown_requested => generated = Get(at_shutdown).generated

\* C16 amended: once the shutdown flag is set at most one further event is
\* generated (the one whose rate-limited generation had begun when the flag
\* was set), at most one further file is opened (the batch in flight), and
\* run_generator stops with every generated event written to a file that
\* has been closed
C16_DrainsAfterShutdown ==
    shutdown_requested =>
        /\ generated <= Get(at_shutdown).generated + 1
        /\ generated = Get(at_shutdown).generated + 1
               => Get(at_shutdown).gen_pc \in {"waiting", "append"}
        /\ OpenedFiles <= Get(at_shutdown).opened + 1
        /\ OpenedFiles = Get(at_shutdown).opened + 1
               => Get(at_shutdown).gen_pc \in {"for", "waiting", "append", "flush"}
        /\ gen_pc = "stopped" => (total_events = generated /\ writing = 0)

C16_ShutdownStops == shutdown_requested ~> (gen_pc = "stopped")

C16_Amended == []C16_DrainsAfterShutdown /\ C16_ShutdownStops

C16_Witness ==
    /\ gen_pc = "stopped"
    /\ shutdown_requested
    /\ Get(at_shutdown).gen_pc = "waiting"
    /\ generated = Get(at_shutdown).generated + 1
    /\ OpenedFiles = Get(at_shutdown).opened + 1
    /\ events # <<>>
    /\ Len(events) < batch_size

\* the events held by the closed, complete files of the directory
StoredIn(n) ==
    IF files[n].closed /\ files[n].disk = LinesOf(files[n].rows)
    THEN {files[n].rows[i] : i \in DOMAIN files[n].rows}
    ELSE {}

StoredEvents == UNION {StoredIn(n) : n \in DOMAIN files}

NoEventTwice ==
    \A n \in DOMAIN files : \A m \in DOMAIN files :
        \A i \in DOMAIN files[n].rows : \A j \in DOMAIN files[m].rows :
            files[n].rows[i] = files[m].rows[j] => (n = m /\ i = j)

\* C17: every generated event is in exactly one batch file: no event is in
\* two files or twice in one, and whenever run_generator is between two
\* batches or has stopped (by duration or by shutdown) every event generated
\* so far is in a closed, complete file of the directory
C17_EveryEventInOneFile ==
    /\ NoEventTwice
    /\ gen_pc \in {"loop", "stopped"} => StoredEvents = 1..generated

\* the same for the runs in which no file name was used twice
C17_WhereNamesDiffer ==
    /\ NoEventTwice
    /\ (gen_pc \in {"loop", "stopped"} /\ Cardinality(DOMAIN files) = total_files)
          => (StoredEvents = 1..generated /\ total_events = generated)

C17_WhereNamesDifferWitness ==
    /\ gen_pc = "stopped"
    /\ shutdown_requested
    /\ total_files >= 2
    /\ Cardinality(DOMAIN files) = total_files
    /\ events # <<>>
    /\ Len(events) < batch_size
    /\ StoredEvents = 1..generated

\* C18: the pipeline never observes a batch file that holds only a part of
\* its header and event rows
C18_OnlyCompleteFilesObserved ==
    ~IsNull(last_read) => Get(last_read).lines = Get(last_read).of

\* C19: start_streaming_job is called only after a connection test that
\* succeeded; wait_for_postgres makes at most max_retries tests, sleeping the
\* same delay after each failed one; when all max_retries tests have failed
\* startup is aborted and start_streaming_job is never called; and startup
\* always comes to an end, streaming or aborted
FailedTests == IF st_connected THEN st_tests - 1 ELSE st_tests

C19_BoundedPolling ==
    /\ st_tests <= max_retries
    /\ st_started => st_connected
    /\ st_pc \in {"for", "start", "streaming", "aborted"}
          => st_slept = DefaultDelay * FailedTests
    /\ st_pc = "aborted" =>
          /\ st_tests = max_retries
          /\ ~st_connected
          /\ ~st_started

C19_StartupEnds == <>(st_pc \in {"streaming", "aborted"})

C19_StartupGate == []C19_BoundedPolling /\ C19_StartupEnds

C19_Witness ==
    /\ st_pc = "aborted"
    /\ max_retries = DefaultMaxRetries
    /\ st_tests = DefaultMaxRetries
    /\ ~st_started

C19_WitnessStarted ==
    /\ st_pc = "streaming"
    /\ st_started
    /\ st_tests = max_retries
    /\ st_slept = 2 * DefaultDelay

\* C20: with R = 5, twelve wait() calls issued back to back take at least
\* 1.0 and at most 3.0 seconds from the first call to the last return,
\* whenever the first call is made
C20_TwelveCallsDuration ==
    (events_per_second = 5 /\ Len(returns) = 12) =>
        /\ returns[12] - first_call >= TicksPerSecond
        /\ returns[12] - first_call <= 3 * TicksPerSecond

C20_Witness ==
    /\ events_per_second = 5
    /\ Len(returns) = 12
    /\ first_call > TicksPerSecond
    /\ first_call % TicksPerSecond # 0
    /\ returns[12] - first_call = 2 * TicksPerSecond

C20_WitnessShort ==
    /\ events_per_second = 5
    /\ Len(returns) = 12
    /\ first_call = TicksPerSecond - 1
    /\ returns[12] - first_call = TicksPerSecond + 1

\* C21: a record whose event_type is a valid kind up to letter case and
\* surrounding whitespace, and whose other fields are valid, is classified
\* valid and carried forward with event_type in canonical lowercase
WhitespaceChars == {" ", "\t"}

RECURSIVE StripWhitespace(_)
StripWhitespace(s) ==
    IF s # <<>> /\ Head(s) \in WhitespaceChars THEN StripWhitespace(Tail(s))
    ELSE IF s # <<>> /\ s[Len(s)] \in WhitespaceChars
         THEN StripWhitespace(SubSeq(s, 1, Len(s) - 1))
    ELSE s

OtherFieldsValid(raw) ==
    /\ NonEmptyAfterTrim(raw["event_id"])
    /\ NonEmptyAfterTrim(raw["user_id"])
    /\ NonEmptyAfterTrim(raw["product_id"])
    /\ ~IsNull(raw["price"])
    /\ Get(raw["price"]) > 0
    /\ ~IsNull(ToTimestamp(raw["timestamp"]))

CarriedForwardAs(raw, kind) ==
    \E r \in DOMAIN valid_df :
        /\ r = DropFlagAndTimestamp(FlagRow(raw))
        /\ r["event_type"] = Val(kind)
        /\ kind \in VALID_EVENT_TYPES

C21_NormalizedBeforeCheck ==
    pc # "idle" =>
        \A raw \in DOMAIN batch_df :
            (/\ OtherFieldsValid(raw)
             /\ ~IsNull(raw["event_type"])
             /\ LowerStr(StripWhitespace(Get(raw["event_type"])))
                   \in VALID_EVENT_TYPES)
            => CarriedForwardAs(raw,
                   LowerStr(StripWhitespace(Get(raw["event_type"]))))

\* the same where the surrounding whitespace is made of space characters
C21_WhereSpacesSurround ==
    pc # "idle" =>
        \A raw \in DOMAIN batch_df :
            (/\ OtherFieldsValid(raw)
             /\ ~IsNull(raw["event_type"])
             /\ LowerStr(Get(Trim(raw["event_type"]))) \in VALID_EVENT_TYPES)
            => CarriedForwardAs(raw, LowerStr(Get(Trim(raw["event_type"]))))

C21_WhereSpacesSurroundWitness ==
    /\ pc = "returned"
    /\ \E raw \in DOMAIN batch_df :
          /\ raw["event_type"] = Val(<<"V","I","E","W"," ">>)
          /\ CarriedForwardAs(raw, view)
          /\ DropFlagAndTimestamp(FlagRow(raw)) \in sink

\* C23: the quarantine output of a batch has exactly the columns of the
\* source batch file, without the validity flag and without any other column
C23_QuarantineColumns ==
    \A r \in DOMAIN error_out.rows : DOMAIN r = SourceColumns

\* the quarantine output has the source columns, without the validity flag,
\* and the parsed event_timestamp besides
C23_QuarantineColumnsInCode ==
    \A r \in DOMAIN error_out.rows :
        DOMAIN r = SourceColumns \cup {"event_timestamp"}

C23_QuarantineColumnsInCodeWitness ==
    /\ error_out.status = "saved"
    /\ Count(error_out.rows) = 2

\* C26: for a rate R >= 1 the counter is between 1 and R after every return
\* of wait(); wait() sleeps only with the counter at R inside the current
\* window, for the rest of that window and never more than one second; and
\* after the sleep the counter restarts at 1 in a window that starts at the
\* time of waking
C26_CounterInRange ==
    (events_per_second >= 1 /\ rl_pc = "ready" /\ returns # <<>>) =>
        /\ events_this_second >= 1
        /\ events_this_second <= events_per_second

C26_SleepsAtLimit ==
    (events_per_second >= 1 /\ rl_pc = "sleeping") =>
        /\ events_this_second = events_per_second
        /\ wake_at = second_start + TicksPerSecond
        /\ wake_at - TicksPerSecond <= now
        /\ Len(returns) >= events_per_second
        /\ returns[Len(returns)] >= second_start

C26_ResetAfterSleep ==
    (events_per_second >= 1 /\ rl_pc = "sleeping" /\ rl_pc' = "ready") =>
        /\ events_this_second' = 1
        /\ second_start' = now'
        /\ now' >= wake_at

C26_LimiterInvariants ==
    /\ [](C26_CounterInRange /\ C26_SleepsAtLimit)
    /\ [][C26_ResetAfterSleep]_vars

C26_Witness ==
    /\ events_per_second = MaxRate
    /\ rl_pc = "ready"
    /\ Len(returns) = MaxRate + 1
    /\ returns[MaxRate] < returns[MaxRate + 1]
    /\ second_start = returns[MaxRate + 1]
    /\ events_this_second = 1

\* C22: every batch of a run gets a file name no earlier batch of the run
\* has, so that no write replaces a file written earlier, and the names
\* increase in the order in which the batches were written
C22_NamesUniqueAndIncreasing ==
    /\ OpenedFiles = Cardinality(DOMAIN files)
    /\ \A n \in DOMAIN files : \A m \in DOMAIN files :
          (n < m /\ files[n].rows # <<>> /\ files[m].rows # <<>>)
              => files[n].rows[1] < files[m].rows[1]

\* C24: a shutdown signal changes nothing but the flag; a file write that
\* has started is never abandoned and ends with the whole file (header and
\* all events of the batch) on disk; when run_generator has stopped and
\* logged its summary every file of the run is closed and complete
Complete(n) == files[n].closed /\ files[n].disk = LinesOf(files[n].rows)

C24_SignalOnlySetsFlag ==
    shutdown_requested' # shutdown_requested =>
        /\ shutdown_requested'
        /\ UNCHANGED <<gen_pc, events, iteration, generated, total_events,
                       total_files, files, writing, file_clock, now,
                       limiterState>>

C24_WriteRunsToTheEnd ==
    gen_pc = "write" =>
        /\ gen_pc' \in {"write", "loop"}
        /\ files'[writing].rows = events
        /\ gen_pc' = "loop" =>
              (files'[writing].closed
                 /\ files'[writing].disk = LinesOf(events))

C24_AllCompleteAtExit ==
    gen_pc = "stopped" => (writing = 0 /\ \A n \in DOMAIN files : Complete(n))

C24_StartedWriteCompletes == (gen_pc = "write") ~> (gen_pc = "loop")

C24_NoStepInterrupted ==
    /\ [][C24_SignalOnlySetsFlag /\ C24_WriteRunsToTheEnd]_vars
    /\ []C24_AllCompleteAtExit
    /\ C24_StartedWriteCompletes

C24_Witness ==
    /\ gen_pc = "stopped"
    /\ shutdown_requested
    /\ Get(at_shutdown).gen_pc = "write"
    /\ OpenedFiles = Get(at_shutdown).opened
    /\ \A n \in DOMAIN files : Complete(n)
    /\ Len(events) = batch_size

\* C27: the counters change only when a file write is complete, then
\* total_files by one and total_events by the number of events of the file;
\* between two batches and at the end total_events is the number of events
\* generated; every file written holds at least one and at most batch_size
\* events, an empty batch is neither written nor counted
C27_CountedWithTheWrite ==
    /\ (gen_pc = "write" /\ gen_pc' = "loop") =>
          /\ total_files' = total_files + 1
          /\ total_events' = total_events + Len(files'[writing].rows)
    /\ (total_files' # total_files \/ total_events' # total_events) =>
          (gen_pc = "write" /\ gen_pc' = "loop")

C27_BatchSizes ==
    /\ \A n \in DOMAIN files :
          Len(files[n].rows) >= 1 /\ Len(files[n].rows) <= batch_size
    /\ gen_pc \in {"loop", "stopped"} =>
          /\ total_events = generated
          /\ total_files >= Cardinality(DOMAIN files)
          /\ total_files <= total_events
          /\ total_events <= total_files * batch_size

C27_CountersMatchWrites == [][C27_CountedWithTheWrite]_vars /\ []C27_BatchSizes

C27_Witness ==
    /\ gen_pc = "stopped"
    /\ shutdown_requested
    /\ batch_size = MaxBatchSize
    /\ total_files = 2
    /\ total_events = batch_size + 1

\* C25: with a duration, events_per_second >= 1 and batch_size >= 1, and no
\* signal, run_generator stops; it starts a batch only while the elapsed
\* time is below the duration and stops at the first batch boundary at
\* which the duration is reached; every batch it started is filled to
\* batch_size events and written before it stops
C25_BoundCheckedBetweenBatches ==
    gen_pc = "loop" =>
        /\ gen_pc' = "for" => ~DurationReached
        /\ gen_pc' = "stopped" => DurationReached

C25_BatchesFull ==
    /\ gen_pc = "flush" => Len(events) = batch_size
    /\ \A n \in DOMAIN files : Len(files[n].rows) = batch_size
    /\ gen_pc = "stopped" =>
          /\ DurationReached
          /\ writing = 0
          /\ total_events = generated
          /\ total_events = total_files * batch_size

C25_Stops == <>(gen_pc = "stopped")

C25_StopsByDuration ==
    /\ [][C25_BoundCheckedBetweenBatches]_vars
    /\ []C25_BatchesFull
    /\ C25_Stops

C25_Witness ==
    /\ gen_pc = "stopped"
    /\ ~shutdown_requested
    /\ batch_size >= 2
    /\ total_files >= 2
    /\ second_start >= start_time + Get(duration) * TicksPerSecond
    /\ events_this_second >= 1
    /\ total_events = total_files * batch_size

====
